---- MODULE Spec2Model ----
(***************************************************************************)
(* Model of the file explorer of claudia-web                                *)
(* (src/src/components/FileExplorer.tsx) together with the listing client  *)
(* it calls (src/src/lib/containerAPI.ts).                                  *)
(*                                                                         *)
(* The component is modelled with both props projectPath and projectId     *)
(* set (FileExplorer.tsx:68 returns early otherwise and the tree stays     *)
(* empty).  One action is one synchronous run of a handler or of the       *)
(* continuation of an await; React re-renders between two such runs, so    *)
(* a handler always closes over the state of the latest render.            *)
(*                                                                         *)
(* A FileEntry is a record; the optional field children (undefined or an   *)
(* array) is the pair has_children / children.  size and modified are      *)
(* carried through unchanged by the code and are left out.                 *)
(***************************************************************************)
EXTENDS Integers, Sequences, FiniteSets, Bags, TLC

(***************************************************************************)
(* Bounds                                                                  *)
(***************************************************************************)
\* at most this many loadFileTree calls are awaiting a response at a time
MaxCalls == 2
\* at most this many listing requests are issued in one run
MaxRequests == 4

(***************************************************************************)
(* Strings: the names and queries of the model, spelled as characters      *)
(***************************************************************************)
Chars ==
  [s \in {"", " ", "s", "MD", "Me", "src", "docs", "lib", "to do",
          "README.md", "index.ts", "package.json"} |->
     CASE s = ""             -> <<>>
       [] s = " "            -> <<" ">>
       [] s = "s"            -> <<"s">>
       [] s = "MD"           -> <<"M", "D">>
       [] s = "Me"           -> <<"M", "e">>
       [] s = "to do"        -> <<"t", "o", " ", "d", "o">>
       [] s = "src"          -> <<"s", "r", "c">>
       [] s = "docs"         -> <<"d", "o", "c", "s">>
       [] s = "lib"          -> <<"l", "i", "b">>
       [] s = "README.md"    -> <<"R", "E", "A", "D", "M", "E", ".", "m", "d">>
       [] s = "index.ts"     -> <<"i", "n", "d", "e", "x", ".", "t", "s">>
       [] s = "package.json" -> <<"p", "a", "c", "k", "a", "g", "e", ".",
                                  "j", "s", "o", "n">>]

\* String.prototype.toLowerCase, one character
LowerChar(c) ==
  CASE c = "R" -> "r" [] c = "E" -> "e" [] c = "A" -> "a"
    [] c = "D" -> "d" [] c = "M" -> "m" [] OTHER -> c

\* String.prototype.toLowerCase
toLowerCase(cs) == [i \in 1..Len(cs) |-> LowerChar(cs[i])]

\* String.prototype.includes
includes(cs, q) ==
  \E k \in 0..(Len(cs) - Len(q)) : \A j \in 1..Len(q) : cs[k + j] = q[j]

\* searchQuery.trim() is truthy: some character is not white space
trimNonEmpty(s) == \E i \in 1..Len(Chars[s]) : Chars[s][i] # " "

(***************************************************************************)
(* The listing sources                                                     *)
(***************************************************************************)
File(n, p, d) == [name |-> n, path |-> p, is_directory |-> d]

\* ContainerAPI.getMockFiles: the same three entries whatever was asked
getMockFiles ==
  << File("src", "src", TRUE),
     File("package.json", "package.json", FALSE),
     File("README.md", "README.md", FALSE) >>

\* What the workspace holds: the possible answers of a successful listing
\* of a path ("" is the project root).  The project may or may not have a
\* docs directory; a path that is no directory lists as empty
\* (listDirectory returns [] when readdir fails).
Listings(path) ==
  CASE path = ""     -> { << File("src", "src", TRUE),
                             File("README.md", "README.md", FALSE) >>,
                          << File("src", "src", TRUE),
                             File("docs", "docs", TRUE),
                             File("README.md", "README.md", FALSE) >> }
    [] path = "src"  -> { << File("index.ts", "src/index.ts", FALSE) >> }
    [] path = "docs" -> { << File("lib", "docs/lib", TRUE),
                             File("to do", "docs/to do", FALSE) >> }
    [] OTHER         -> { <<>> }

\* the search queries typed into the search box
Queries == {"", " ", "s", "Me"}

(***************************************************************************)
(* State                                                                   *)
(***************************************************************************)
VARIABLES
  fileTree,       \* useState<FileEntry[]>([])
  expandedPaths,  \* useState<Set<string>>(new Set())
  loading,        \* useState(false)
  searchQuery,    \* useState('')
  filteredFiles,  \* useState<FileEntry[]>([])
  calls,          \* the loadFileTree calls suspended at an await
  requests,       \* history: listing requests issued so far
  lastEvent,      \* history: what the last step did
  apiPending,     \* ContainerAPI: the method call awaiting its fetch
  apiResult,      \* ContainerAPI: how the last method call completed
  dbOpen,         \* WebProjectManager: this.db is set
  db,             \* WebProjectManager: the "projects" object store, by id
  storeOps,       \* WebProjectManager: updateProjectFile calls between their
                  \* read transaction and their write transaction
  writes,         \* history: calls so far that change the object store
  storeEvent,     \* history: what the last WebProjectManager step did
  listeners,      \* webEventSystem: the listener list of globalEventTarget
  registry,       \* history: every registration made so far, by its number
  unlistenCalled, \* history: registrations whose unlisten function was called
  resolved,       \* webEventSystem: the promises returned by once()
  evEvent,        \* history: what the last webEventSystem step did
  fsWritten,      \* server: the files written so far
  reply           \* server: the last request and its answer

explorerVars == <<fileTree, expandedPaths, loading, searchQuery, filteredFiles,
                  calls, requests, lastEvent>>

apiVars == <<apiPending, apiResult>>

storeVars == <<dbOpen, db, storeOps, writes, storeEvent>>

eventVars == <<listeners, registry, unlistenCalled, resolved, evEvent>>

serverVars == <<fsWritten, reply>>

vars == <<explorerVars, apiVars, storeVars, eventVars, serverVars>>

(***************************************************************************)
(* FileExplorer.tsx: pure helpers                                          *)
(***************************************************************************)
\* mutant of LazyEntry: a directory starts without a children list
LazyEntry_noChildren(f) ==
  [name |-> f.name, path |-> f.path, is_directory |-> f.is_directory,
   has_children |-> FALSE, children |-> <<>>, expanded |-> FALSE]

\* lines 77-85, 103-107, 125-129: a listed file becomes a lazy entry
LazyEntry(f) ==
  [name |-> f.name, path |-> f.path, is_directory |-> f.is_directory,
   has_children |-> f.is_directory, children |-> <<>>, expanded |-> FALSE]

LazyEntries(fs) == [i \in 1..Len(fs) |-> LazyEntry(fs[i])]

\* mutant of updateTreeWithChildren: the target is matched by path alone,
\* whether it is a directory or not
RECURSIVE updateTreeWithChildren_anyKind(_, _, _)
updateTreeWithChildren_anyKind(tree, targetPath, children) ==
  [i \in 1..Len(tree) |->
     LET item == tree[i] IN
       IF item.path = targetPath
         THEN [item EXCEPT !.has_children = TRUE,
                           !.children = LazyEntries(children),
                           !.expanded = TRUE]
       ELSE IF item.has_children
         THEN [item EXCEPT !.children =
                 updateTreeWithChildren_anyKind(item.children, targetPath,
                                                children)]
       ELSE item]

\* mutant of updateTreeWithChildren: only the roots are searched
updateTreeWithChildren_shallow(tree, targetPath, children) ==
  [i \in 1..Len(tree) |->
     LET item == tree[i] IN
       IF item.path = targetPath /\ item.is_directory
         THEN [item EXCEPT !.has_children = TRUE,
                           !.children = LazyEntries(children),
                           !.expanded = TRUE]
       ELSE item]

\* lines 120-140: graft children at the directory nodes of path targetPath
RECURSIVE updateTreeWithChildren(_, _, _)
updateTreeWithChildren(tree, targetPath, children) ==
  [i \in 1..Len(tree) |->
     LET item == tree[i] IN
       IF item.path = targetPath /\ item.is_directory
         THEN [item EXCEPT !.has_children = TRUE,
                           !.children = LazyEntries(children),
                           !.expanded = TRUE]
       ELSE IF item.has_children
         THEN [item EXCEPT !.children =
                 updateTreeWithChildren(item.children, targetPath, children)]
       ELSE item]

\* mutant of searchInTree: the children are visited before their parent
RECURSIVE searchInTree_childrenFirst(_, _, _, _)
searchInTree_childrenFirst(items, hasParent, parentPath, query) ==
  IF items = <<>> THEN <<>>
  ELSE LET item == Head(items)
           hit  == IF includes(toLowerCase(Chars[item.name]), query)
                     THEN << [item EXCEPT !.path =
                                IF hasParent
                                  THEN parentPath \o "/" \o item.name
                                  ELSE item.path] >>
                     ELSE <<>>
           sub  == IF item.has_children
                     THEN searchInTree_childrenFirst(item.children, TRUE,
                                                     item.path, query)
                     ELSE <<>>
       IN sub \o hit
            \o searchInTree_childrenFirst(Tail(items), hasParent, parentPath,
                                          query)

\* mutant of searchInTree: the name is compared as it is spelled
RECURSIVE searchInTree_caseSensitive(_, _, _, _)
searchInTree_caseSensitive(items, hasParent, parentPath, query) ==
  IF items = <<>> THEN <<>>
  ELSE LET item == Head(items)
           hit  == IF includes(Chars[item.name], query)
                     THEN << [item EXCEPT !.path =
                                IF hasParent
                                  THEN parentPath \o "/" \o item.name
                                  ELSE item.path] >>
                     ELSE <<>>
           sub  == IF item.has_children
                     THEN searchInTree_caseSensitive(item.children, TRUE,
                                                     item.path, query)
                     ELSE <<>>
       IN hit \o sub
            \o searchInTree_caseSensitive(Tail(items), hasParent, parentPath,
                                          query)

\* lines 172-184: pre-order walk collecting the entries whose name has query
RECURSIVE searchInTree(_, _, _, _)
searchInTree(items, hasParent, parentPath, query) ==
  IF items = <<>> THEN <<>>
  ELSE LET item == Head(items)
           hit  == IF includes(toLowerCase(Chars[item.name]), query)
                     THEN << [item EXCEPT !.path =
                                IF hasParent
                                  THEN parentPath \o "/" \o item.name
                                  ELSE item.path] >>
                     ELSE <<>>
           sub  == IF item.has_children
                     THEN searchInTree(item.children, TRUE, item.path, query)
                     ELSE <<>>
       IN hit \o sub \o searchInTree(Tail(items), hasParent, parentPath, query)

filterFiles(files, query) == searchInTree(files, FALSE, "", query)

\* mutant of SearchEffect: the query is tested without trim()
SearchEffect_noTrim(tree, q) ==
  IF q # "" THEN filterFiles(tree, toLowerCase(Chars[q])) ELSE <<>>

\* lines 58-65: the search effect, run after every render in which
\* searchQuery or fileTree changed
SearchEffect(tree, q) ==
  IF trimNonEmpty(q) THEN filterFiles(tree, toLowerCase(Chars[q])) ELSE <<>>

\* lines 213-253: the entries renderFileTree draws, each with a click handler
RECURSIVE renderFileTree(_, _)
renderFileTree(files, expanded) ==
  UNION { {files[i]} \cup
          (IF files[i].is_directory /\ files[i].path \in expanded
              /\ files[i].has_children
             THEN renderFileTree(files[i].children, expanded)
             ELSE {}) : i \in 1..Len(files) }

\* lines 341-359: what can be clicked in the current render
Clickable ==
  IF loading THEN {}
  ELSE IF trimNonEmpty(searchQuery)
    THEN { filteredFiles[i] : i \in 1..Len(filteredFiles) }
    ELSE renderFileTree(fileTree, expandedPaths)

\* lines 341-359: which of the three views the render shows
viewMode ==
  IF loading THEN "loading"
  ELSE IF trimNonEmpty(searchQuery) THEN "search" ELSE "tree"

(***************************************************************************)
(* Actions                                                                 *)
(***************************************************************************)
Event(op, path, outcome, selected) ==
  [op |-> op, path |-> path, outcome |-> outcome, selected |-> selected]

\* a loadFileTree call suspended at an await: stage "container" awaits
\* containerAPI.listProjectFiles (line 74), stage "legacy" awaits
\* api.listDirectoryContents (line 100).  kind "expand" is a call made by
\* toggleDirectory, which resumes with its newExpandedPaths (line 158).
Call(kind, path, stage, newExpandedPaths) ==
  [kind |-> kind, path |-> path, stage |-> stage,
   newExpandedPaths |-> newExpandedPaths]

\* containerAPI.ts:207: the singleton client, no call made yet
ApiInit ==
  /\ apiPending = [op |-> "none", arg |-> ""]
  /\ apiResult = [op |-> "none", arg |-> "", response |-> "", raised |-> FALSE,
                  source |-> "void", value |-> ""]

\* webProjectManager.ts:24,201: the singleton before init(), over a browser
\* database that holds no project yet
StoreInit ==
  /\ dbOpen = FALSE
  /\ db = <<>>
  /\ storeOps = EmptyBag
  /\ writes = 0
  /\ storeEvent = [op |-> "new", id |-> "", path |-> "", outcome |-> "",
                   result |-> <<>>]

\* webEventSystem.ts:7: a new EventTarget, nothing registered
EventInit ==
  /\ listeners = <<>>
  /\ registry = <<>>
  /\ unlistenCalled = {}
  /\ resolved = <<>>
  /\ evEvent = [op |-> "new", name |-> "", payload |-> "", reg |-> 0,
                invoked |-> <<>>]

\* the server after start: no request served, nothing written
ServerInit ==
  /\ fsWritten = {}
  /\ reply = [endpoint |-> "none", projectId |-> "",
              request |-> [given |-> FALSE, abs |-> FALSE, segs |-> <<>>],
              status |-> 0, touched |-> {}]

Init ==
  /\ ApiInit
  /\ StoreInit
  /\ EventInit
  /\ ServerInit
  /\ fileTree = <<>>
  /\ expandedPaths = {}
  /\ loading = FALSE
  /\ searchQuery = ""
  /\ filteredFiles = <<>>
  /\ calls = EmptyBag
  /\ requests = 0
  /\ lastEvent = Event("init", "", "", <<>>)

\* mutant of loadFileTree: the legacy listing is asked first
loadFileTree_legacyFirst(kind, path, newExpandedPaths) ==
  /\ BagCardinality(calls) < MaxCalls
  /\ requests < MaxRequests
  /\ requests' = requests + 1
  /\ loading' = TRUE
  /\ calls' = calls (+) SetToBag({Call(kind, path, "legacy",
                                       newExpandedPaths)})

\* the explorer after its first root load has listed src, docs and
\* README.md; requests counts from here on
InitLoaded ==
  /\ ApiInit
  /\ StoreInit
  /\ EventInit
  /\ ServerInit
  /\ fileTree = LazyEntries(<< File("src", "src", TRUE),
                               File("docs", "docs", TRUE),
                               File("README.md", "README.md", FALSE) >>)
  /\ expandedPaths = {}
  /\ loading = FALSE
  /\ searchQuery = ""
  /\ filteredFiles = <<>>
  /\ calls = EmptyBag
  /\ requests = 0
  /\ lastEvent = Event("rootDone", "", "ok", <<>>)

\* lines 67-74: loadFileTree up to its first await
loadFileTree(kind, path, newExpandedPaths) ==
  /\ BagCardinality(calls) < MaxCalls
  /\ requests < MaxRequests
  /\ requests' = requests + 1
  /\ loading' = TRUE
  /\ calls' = calls (+) SetToBag({Call(kind, path, "container",
                                       newExpandedPaths)})

\* lines 51-55: mount, or a change of the projectPath prop, runs loadFileTree()
ProjectPathEffect ==
  /\ UNCHANGED <<apiVars, storeVars, eventVars, serverVars>>
  /\ loadFileTree("root", "", {})
  /\ lastEvent' = Event("loadRoot", "", "", <<>>)
  /\ UNCHANGED <<fileTree, expandedPaths, searchQuery, filteredFiles>>

\* mutant of childrenNotLoaded: the length test lets every list through
childrenNotLoaded_always(entry) ==
  ~entry.has_children \/ Len(entry.children) >= 0

\* line 153: the children of the clicked entry are not loaded yet
childrenNotLoaded(entry) ==
  ~entry.has_children \/ Len(entry.children) = 0

\* lines 142-159: toggleDirectory, up to its await or to its end
toggleDirectory(entry) ==
  LET isExpanded == entry.path \in expandedPaths IN
    IF isExpanded
      THEN /\ expandedPaths' = expandedPaths \ {entry.path}
           /\ lastEvent' = Event("collapse", entry.path, "", <<>>)
           /\ UNCHANGED <<fileTree, loading, searchQuery, filteredFiles, calls,
                          requests>>
    ELSE IF childrenNotLoaded(entry)
      THEN /\ loadFileTree("expand", entry.path,
                           expandedPaths \cup {entry.path})
           /\ lastEvent' = Event("expandFetch", entry.path, "", <<>>)
           /\ UNCHANGED <<fileTree, expandedPaths, searchQuery, filteredFiles>>
    ELSE /\ expandedPaths' = expandedPaths \cup {entry.path}
         /\ lastEvent' = Event("expandCached", entry.path, "", <<>>)
         /\ UNCHANGED <<fileTree, loading, searchQuery, filteredFiles, calls,
                          requests>>

\* mutant of handleFileClick: a clicked file is toggled as well
handleFileClick_togglesFiles ==
  /\ UNCHANGED <<apiVars, storeVars, eventVars, serverVars>>
  /\ \E entry \in Clickable :
    IF entry.is_directory
      THEN toggleDirectory(entry)
      ELSE /\ lastEvent' = Event("select", entry.path, "", <<entry.path>>)
           /\ expandedPaths' = expandedPaths \cup {entry.path}
           /\ UNCHANGED <<fileTree, loading, searchQuery,
                          filteredFiles, calls, requests>>

\* lines 161-167: a click on a rendered entry (tree row or search result)
handleFileClick ==
  /\ UNCHANGED <<apiVars, storeVars, eventVars, serverVars>>
  /\ \E entry \in Clickable :
    IF entry.is_directory
      THEN toggleDirectory(entry)
      ELSE /\ lastEvent' = Event("select", entry.path, "", <<entry.path>>)
           /\ UNCHANGED <<fileTree, expandedPaths, loading, searchQuery,
                          filteredFiles, calls, requests>>

\* mutant of Finish: the search results are not recomputed
Finish_staleSearch(c, tree, outcome) ==
  /\ fileTree' = tree
  /\ loading' = FALSE
  /\ expandedPaths' = IF c.kind = "expand" THEN c.newExpandedPaths
                                            ELSE expandedPaths
  /\ calls' = calls (-) SetToBag({c})
  /\ lastEvent' = Event(IF c.kind = "expand" THEN "expandDone" ELSE "rootDone",
                        c.path, outcome, <<>>)
  /\ UNCHANGED <<searchQuery, filteredFiles, requests>>

\* lines 87-93 / 102-111, 115-117 and 158: a loadFileTree call that got its
\* entries stores them, clears loading and returns; a toggleDirectory that
\* awaited it then stores its newExpandedPaths
Finish(c, tree, outcome) ==
  /\ fileTree' = tree
  /\ filteredFiles' = SearchEffect(tree, searchQuery)
  /\ loading' = FALSE
  /\ expandedPaths' = IF c.kind = "expand" THEN c.newExpandedPaths
                                            ELSE expandedPaths
  /\ calls' = calls (-) SetToBag({c})
  /\ lastEvent' = Event(IF c.kind = "expand" THEN "expandDone" ELSE "rootDone",
                        c.path, outcome, <<>>)
  /\ UNCHANGED <<searchQuery, requests>>

\* lines 87-93: the entries of the container listing go into the tree
Store(c, entries) ==
  IF c.kind = "root" THEN entries
  ELSE updateTreeWithChildren(fileTree, c.path, entries)

\* containerAPI.ts:79-86 and FileExplorer.tsx:74-93: the request succeeded
ContainerListed ==
  /\ UNCHANGED <<apiVars, storeVars, eventVars, serverVars>>
  /\ \E c \in BagToSet(calls) :
    /\ c.stage = "container"
    /\ \E fs \in Listings(c.path) : Finish(c, Store(c, LazyEntries(fs)), "ok")

\* containerAPI.ts:87-90: transport error or non-2xx answer, the client
\* returns getMockFiles() and loadFileTree goes on as after a success
ContainerMocked ==
  /\ UNCHANGED <<apiVars, storeVars, eventVars, serverVars>>
  /\ \E c \in BagToSet(calls) :
    /\ c.stage = "container"
    /\ Finish(c, Store(c, LazyEntries(getMockFiles)), "mock")

\* FileExplorer.tsx:77-85 throws (the answer is no array of files with a
\* valid modified time): lines 94-100 call api.listDirectoryContents
ContainerThrew ==
  /\ UNCHANGED <<apiVars, storeVars, eventVars, serverVars>>
  /\ \E c \in BagToSet(calls) :
    /\ c.stage = "container"
    /\ calls' = (calls (-) SetToBag({c}))
                  (+) SetToBag({[c EXCEPT !.stage = "legacy"]})
    /\ lastEvent' = Event("fallback", c.path, "", <<>>)
    /\ UNCHANGED <<fileTree, expandedPaths, loading, searchQuery,
                   filteredFiles, requests>>

\* lines 100-111: the legacy listing answered
LegacyListed ==
  /\ UNCHANGED <<apiVars, storeVars, eventVars, serverVars>>
  /\ \E c \in BagToSet(calls) :
    /\ c.stage = "legacy"
    /\ \E fs \in Listings(c.path) :
         Finish(c, IF c.kind = "root" THEN LazyEntries(fs)
                   ELSE updateTreeWithChildren(fileTree, c.path, fs),
                "legacyOk")

\* lines 112-114: the legacy listing failed too
LegacyFailed ==
  /\ UNCHANGED <<apiVars, storeVars, eventVars, serverVars>>
  /\ \E c \in BagToSet(calls) :
    /\ c.stage = "legacy"
    /\ Finish(c, fileTree, "legacyFailed")

\* line 328 and lines 58-65: typing into the search box
setSearchQuery ==
  /\ UNCHANGED <<apiVars, storeVars, eventVars, serverVars>>
  /\ \E q \in Queries :
    /\ q # searchQuery
    /\ searchQuery' = q
    /\ filteredFiles' = SearchEffect(fileTree, q)
    /\ lastEvent' = Event("search", "", "", <<>>)
    /\ UNCHANGED <<fileTree, expandedPaths, loading, calls, requests>>

Next ==
  \/ ProjectPathEffect
  \/ handleFileClick
  \/ ContainerListed
  \/ ContainerMocked
  \/ ContainerThrew
  \/ LegacyListed
  \/ LegacyFailed
  \/ setSearchQuery

Spec == Init /\ [][Next]_vars

\* the same explorer, observed from the end of its first root load
SpecLoaded == InitLoaded /\ [][Next]_vars

(***************************************************************************)
(* The Remote Workspace Client (containerAPI.ts)                           *)
(***************************************************************************)
ApiOps ==
  {"listWorkspaceProjects", "createProject", "getProject", "listProjectFiles",
   "readFile", "writeFile", "deleteFile", "executeCommand"}

\* the argument the result of a call can depend on: the project name, the
\* project id, the file path or the command
ApiArgs == {"Me", "to do"}

\* what fetch does: a 2xx answer with a JSON body, a 2xx answer whose body
\* is no JSON, another status, or a rejected fetch
Responses == {"ok", "okNotJson", "non2xx", "transport"}

\* lines 46, 61, 72, 86: the methods that await response.json()
ParsesJson(op) ==
  op \in {"listWorkspaceProjects", "createProject", "getProject",
          "listProjectFiles"}

\* lines 108, 121: the methods that return nothing
ReturnsNothing(op) == op \in {"writeFile", "deleteFile"}

RECURSIVE Join(_)
Join(cs) == IF cs = <<>> THEN "" ELSE cs[1] \o Join(Tail(cs))

\* lines 170, 172: name.toLowerCase().replace(/\s+/g, '-')
RECURSIVE Slug(_, _)
Slug(cs, inRun) ==
  IF cs = <<>> THEN ""
  ELSE IF cs[1] = " "
    THEN (IF inRun THEN "" ELSE "-") \o Slug(Tail(cs), TRUE)
    ELSE LowerChar(cs[1]) \o Slug(Tail(cs), FALSE)

\* lines 150-166
getMockProjects ==
  << [id |-> "sample-project", name |-> "Sample Project",
      path |-> "/workspace/sample-project"],
     [id |-> "my-app", name |-> "My App", path |-> "/workspace/my-app"] >>

\* lines 168-175
getMockProject(cs) ==
  [id |-> Slug(cs, FALSE), name |-> Join(cs),
   path |-> "/workspace/" \o Slug(cs, FALSE)]

\* the catch block of each method
MockValue(op, arg) ==
  CASE op = "listWorkspaceProjects" -> getMockProjects
    [] op = "createProject"    -> getMockProject(Chars[arg])
    [] op = "getProject"       ->
         getMockProject(<<"p", "r", "o", "j", "e", "c", "t", "-">>
                          \o Chars[arg])
    [] op = "listProjectFiles" -> getMockFiles
    [] op = "readFile"         ->
         "// Mock content for " \o arg \o "\nconsole.log(\"Hello from "
           \o arg \o "\");"
    [] op = "executeCommand"   ->
         "Mock execution of: " \o arg \o "\nCommand completed successfully."
    [] OTHER                   -> "undefined"

ApiResult(op, arg, response, source, value) ==
  [op |-> op, arg |-> arg, response |-> response, raised |-> FALSE,
   source |-> source, value |-> value]

\* mutant of ApiReturn: the status of the answer is not looked at
ApiReturn_noOkCheck(op, arg, response) ==
  LET tryCompletes ==
        IF ParsesJson(op) THEN response \in {"ok", "non2xx"}
                          ELSE response \in {"ok", "okNotJson", "non2xx"}
  IN  IF tryCompletes
        THEN ApiResult(op, arg, response, "server",
               IF ReturnsNothing(op) THEN "undefined"
                                     ELSE <<"body", op, arg>>)
        ELSE ApiResult(op, arg, response, "mock", MockValue(op, arg))

\* lines 40-147: the try block runs to its end when fetch resolves with a
\* 2xx status and the body can be read; anything else lands in the catch
ApiReturn(op, arg, response) ==
  LET tryCompletes ==
        IF ParsesJson(op) THEN response = "ok"
                          ELSE response \in {"ok", "okNotJson"}
  IN  IF tryCompletes
        THEN ApiResult(op, arg, response, "server",
               IF ReturnsNothing(op) THEN "undefined"
                                     ELSE <<"body", op, arg>>)
        ELSE ApiResult(op, arg, response, "mock", MockValue(op, arg))

\* a method is called and awaits its fetch
ApiRequest ==
  /\ apiPending.op = "none"
  /\ \E op \in ApiOps, arg \in ApiArgs :
       apiPending' = [op |-> op, arg |-> arg]
  /\ UNCHANGED <<apiResult, explorerVars, storeVars, eventVars,
               serverVars>>

\* the fetch settles and the method returns
ApiRespond ==
  /\ apiPending.op # "none"
  /\ \E response \in Responses :
       apiResult' = ApiReturn(apiPending.op, apiPending.arg, response)
  /\ apiPending' = [op |-> "none", arg |-> ""]
  /\ UNCHANGED <<explorerVars, storeVars, eventVars,
               serverVars>>

ApiNext ==
  \/ ApiRequest
  \/ ApiRespond

ApiSpec == Init /\ [][ApiNext]_vars

(***************************************************************************)
(* The Persistent Project Store (webProjectManager.ts)                     *)
(***************************************************************************)
MaxWrites == 3

\* crypto.randomUUID() (line 59) and the ids callers ask for
ProjectIds == {"p1", "p2"}

\* Date.now() (line 81)
Times == {1}

\* file names, relative paths and file contents, by their characters
StoreChars ==
  [s \in {"", "hi", "né", "a.txt", "b.BIN", "d/b.BIN", "notes"} |->
     CASE s = ""        -> <<>>
       [] s = "hi"      -> <<"h", "i">>
       [] s = "né"      -> <<"n", "é">>
       [] s = "a.txt"   -> <<"a", ".", "t", "x", "t">>
       [] s = "b.BIN"   -> <<"b", ".", "B", "I", "N">>
       [] s = "d/b.BIN" -> <<"d", "/", "b", ".", "B", "I", "N">>
       [] s = "notes"   -> <<"n", "o", "t", "e", "s">>]

Contents == {"hi", "né"}

FilePaths == {"d/b.BIN", "notes"}

\* the File objects a caller can hand over in a FileList
Upload(n, rel, data) == [name |-> n, webkitRelativePath |-> rel, data |-> data]

FileLists ==
  { <<>>,
    <<Upload("a.txt", "", "hi"), Upload("b.BIN", "d/b.BIN", "né")>>,
    <<Upload("a.txt", "", "né"), Upload("a.txt", "", "hi")>> }

\* bytes of one character in UTF-8
Utf8Width(c) == IF c = "é" THEN 2 ELSE 1

\* lines 152, 157: new Blob([content]).size, the UTF-8 length of the string
RECURSIVE Utf8Length(_)
Utf8Length(cs) ==
  IF cs = <<>> THEN 0 ELSE Utf8Width(cs[1]) + Utf8Length(Tail(cs))

BlobSize(content) == Utf8Length(StoreChars[content])

\* lines 187-193
textExtensions ==
  {".txt", ".md", ".json", ".js", ".ts", ".jsx", ".tsx", ".css", ".scss",
   ".less", ".html", ".htm", ".xml", ".yaml", ".yml", ".toml", ".ini",
   ".cfg", ".conf", ".py", ".java", ".c", ".cpp", ".h", ".hpp", ".cs",
   ".php", ".rb", ".go", ".rs", ".swift", ".kt", ".scala", ".clj", ".hs",
   ".ml", ".fs", ".vb", ".sql", ".sh", ".bat", ".ps1", ".dockerfile",
   ".gitignore", ".env"}

\* String.prototype.toLowerCase on the characters of file names
LowerNameChar(c) ==
  CASE c = "B" -> "b" [] c = "I" -> "i" [] c = "N" -> "n" [] OTHER -> c

\* filename.split('.').pop(): the characters after the last '.'
RECURSIVE LastSegment(_)
LastSegment(cs) ==
  IF \E i \in 1..Len(cs) : cs[i] = "."
    THEN LastSegment(Tail(cs))
    ELSE cs

\* lines 186-197
isTextFile(filename) ==
  LET cs == StoreChars[filename]
      ext == "." \o Join([i \in 1..Len(LastSegment(cs)) |->
                            LowerNameChar(LastSegment(cs)[i])])
  IN  ext \in textExtensions \/ ~(\E i \in 1..Len(cs) : cs[i] = ".")

\* line 16: content is a string or an ArrayBuffer
StringContent(s) == [kind |-> "string", data |-> s]

\* lines 171-184: readAsText gives the string, readAsArrayBuffer the bytes
readFileContent(file) ==
  IF isTextFile(file.name) THEN StringContent(file.data)
                           ELSE [kind |-> "ArrayBuffer", data |-> file.data]

\* lines 69-74
ProjectFile(file) ==
  [path    |-> IF file.webkitRelativePath # "" THEN file.webkitRelativePath
                                              ELSE file.name,
   content |-> readFileContent(file),
   type    |-> IF isTextFile(file.name) THEN "text" ELSE "binary",
   size    |-> BlobSize(file.data)]

\* lines 77-82
WebProject(id, name, files, t) ==
  [id |-> id, name |-> name,
   files |-> [i \in 1..Len(files) |-> ProjectFile(files[i])],
   created_at |-> t]

\* Array.prototype.findIndex (line 145), 0 for -1
findIndex(files, filePath) ==
  IF \E i \in 1..Len(files) : files[i].path = filePath
    THEN CHOOSE i \in 1..Len(files) :
           /\ files[i].path = filePath
           /\ \A j \in 1..(i - 1) : files[j].path # filePath
    ELSE 0

\* mutant of UpdatedProject: an existing record keeps its old size
UpdatedProject_keepsSize(project, filePath, content) ==
  LET fileIndex == findIndex(project.files, filePath)
  IN  IF fileIndex = 0
        THEN [project EXCEPT !.files =
                Append(@, [path |-> filePath,
                           content |-> StringContent(content),
                           type |-> "text", size |-> BlobSize(content)])]
        ELSE [project EXCEPT !.files[fileIndex].content = StringContent(content)]

\* lines 145-158: the record updateProjectFile writes back
UpdatedProject(project, filePath, content) ==
  LET fileIndex == findIndex(project.files, filePath)
  IN  IF fileIndex = 0
        THEN [project EXCEPT !.files =
                Append(@, [path |-> filePath,
                           content |-> StringContent(content),
                           type |-> "text", size |-> BlobSize(content)])]
        ELSE [project EXCEPT !.files[fileIndex].content = StringContent(content),
                             !.files[fileIndex].size = BlobSize(content)]

StoreEvent(op, id, path, outcome, result) ==
  [op |-> op, id |-> id, path |-> path, outcome |-> outcome,
   result |-> result]

\* mutant of Stored: the result of the request is passed on as it is
Stored_undefined(id) == IF id \in DOMAIN db THEN db[id] ELSE "undefined"

\* store.get(projectId) and request.result || null (lines 114-116)
Stored(id) == IF id \in DOMAIN db THEN db[id] ELSE "null"

\* store.add / store.put of a record under its key
PutRecord(project) ==
  [k \in (DOMAIN db) \cup {project.id} |->
     IF k = project.id THEN project ELSE db[k]]

\* lines 26-34
init ==
  /\ ~dbOpen
  /\ dbOpen' = TRUE
  /\ storeEvent' = StoreEvent("init", "", "", "ok", "undefined")
  /\ UNCHANGED <<db, storeOps, writes, explorerVars, apiVars,
               eventVars, serverVars>>

\* lines 56-93
createProjectFromFiles ==
  /\ UNCHANGED <<dbOpen, storeOps, explorerVars, apiVars,
               eventVars, serverVars>>
  /\ IF ~dbOpen
       THEN /\ storeEvent' = StoreEvent("createProjectFromFiles", "", "",
                                        "Database not initialized", "undefined")
            /\ UNCHANGED <<db, writes>>
       ELSE \E id \in ProjectIds \ DOMAIN db, files \in FileLists, t \in Times :
              LET webProject == WebProject(id, "Me", files, t)
              IN  /\ writes < MaxWrites
                  /\ writes' = writes + 1
                  /\ db' = PutRecord(webProject)
                  /\ storeEvent' = StoreEvent("createProjectFromFiles", id, "",
                                              "ok", webProject)

\* lines 108-119
getProject ==
  /\ UNCHANGED <<dbOpen, db, storeOps, writes, explorerVars, apiVars,
               eventVars, serverVars>>
  /\ \E id \in ProjectIds :
       storeEvent' =
         IF ~dbOpen
           THEN StoreEvent("getProject", id, "", "Database not initialized",
                           "undefined")
           ELSE StoreEvent("getProject", id, "", "ok", Stored(id))

\* lines 121-132
deleteProject ==
  /\ UNCHANGED <<dbOpen, storeOps, explorerVars, apiVars,
               eventVars, serverVars>>
  /\ \E id \in ProjectIds :
       IF ~dbOpen
         THEN /\ storeEvent' = StoreEvent("deleteProject", id, "",
                                 "Database not initialized", "undefined")
              /\ UNCHANGED <<db, writes>>
         ELSE /\ writes < MaxWrites
              /\ writes' = writes + 1
              /\ db' = [k \in (DOMAIN db) \ {id} |-> db[k]]
              /\ storeEvent' = StoreEvent("deleteProject", id, "", "ok",
                                          "undefined")

\* Array.prototype.find(...) || null (line 138)
find(files, filePath) ==
  IF findIndex(files, filePath) = 0 THEN "null"
                                    ELSE files[findIndex(files, filePath)]

\* lines 134-139
getProjectFile ==
  /\ UNCHANGED <<dbOpen, db, storeOps, writes, explorerVars, apiVars,
               eventVars, serverVars>>
  /\ \E id \in ProjectIds, filePath \in FilePaths :
       storeEvent' =
         IF ~dbOpen
           THEN StoreEvent("getProjectFile", id, filePath,
                           "Database not initialized", "undefined")
           ELSE StoreEvent("getProjectFile", id, filePath, "ok",
                  IF id \in DOMAIN db THEN find(db[id].files, filePath)
                                      ELSE "null")

\* lines 141-158: the call, its read transaction and the change of the
\* record in memory; the write transaction is a later step
updateProjectFile ==
  /\ UNCHANGED <<dbOpen, db, explorerVars, apiVars,
               eventVars, serverVars>>
  /\ \E id \in ProjectIds, filePath \in FilePaths, content \in Contents :
       IF ~dbOpen
         THEN /\ storeEvent' = StoreEvent("updateProjectFile", id, filePath,
                                 "Database not initialized", "undefined")
              /\ UNCHANGED <<storeOps, writes>>
       ELSE IF id \notin DOMAIN db
         THEN /\ storeEvent' = StoreEvent("updateProjectFile", id, filePath,
                                 "Project not found", "undefined")
              /\ UNCHANGED <<storeOps, writes>>
       ELSE /\ writes < MaxWrites
            /\ writes' = writes + 1
            /\ storeOps' = storeOps (+) SetToBag({
                 [id |-> id, path |-> filePath, content |-> content,
                  read |-> db[id],
                  project |-> UpdatedProject(db[id], filePath, content)]})
            /\ storeEvent' = StoreEvent("updateProjectFile", id, filePath,
                                        "read", "undefined")

\* mutant of putProject: the change is applied to the record stored now
putProject_rereads ==
  /\ UNCHANGED <<dbOpen, writes, explorerVars, apiVars,
               eventVars, serverVars>>
  /\ \E o \in BagToSet(storeOps) :
       /\ storeOps' = storeOps (-) SetToBag({o})
       /\ db' = PutRecord(IF o.id \in DOMAIN db
                            THEN UpdatedProject(db[o.id], o.path, o.content)
                            ELSE o.project)
       /\ storeEvent' = StoreEvent("updateProjectFile", o.id, o.path, "ok",
                                   "undefined")

\* lines 161-168: store.put(project) of a suspended updateProjectFile
putProject ==
  /\ UNCHANGED <<dbOpen, writes, explorerVars, apiVars,
               eventVars, serverVars>>
  /\ \E o \in BagToSet(storeOps) :
       /\ storeOps' = storeOps (-) SetToBag({o})
       /\ db' = PutRecord(o.project)
       /\ storeEvent' = StoreEvent("updateProjectFile", o.id, o.path, "ok",
                                   "undefined")

StoreNext ==
  \/ init
  \/ createProjectFromFiles
  \/ getProject
  \/ deleteProject
  \/ getProjectFile
  \/ updateProjectFile
  \/ putProject

StoreSpec == Init /\ [][StoreNext]_vars

(***************************************************************************)
(* The event system (webEventSystem.ts)                                    *)
(***************************************************************************)
MaxRegs == 2

EventNames == {"a", "b"}

Handlers == {"h1", "h2"}

Payloads == {"x", "y"}

EvEvent(op, name, payload, reg, invoked) ==
  [op |-> op, name |-> name, payload |-> payload, reg |-> reg,
   invoked |-> invoked]

\* a call of addEventListener with a new closure (lines 27-32, 58-64)
Registration(id, name, kind, handler) ==
  [id |-> id, name |-> name, kind |-> kind, handler |-> handler]

\* removeEventListener(eventName, eventHandler): the closure of one
\* registration leaves the list, if it is in it
removeEventListener(list, id) ==
  SelectSeq(list, LAMBDA r : r.id # id)

\* lines 23-38
listen ==
  /\ Len(registry) < MaxRegs
  /\ \E name \in EventNames, h \in Handlers :
       LET r == Registration(Len(registry) + 1, name, "listen", h)
       IN  /\ listeners' = Append(listeners, r)
           /\ registry' = Append(registry, r)
           /\ resolved' = Append(resolved, "none")
           /\ evEvent' = EvEvent("listen", name, "", r.id, <<>>)
  /\ UNCHANGED <<unlistenCalled, explorerVars, apiVars, storeVars, serverVars>>

\* mutant of unlisten: every listener of the event name is removed
unlisten_byName ==
  /\ \E id \in 1..Len(registry) :
       /\ registry[id].kind = "listen"
       /\ listeners' = SelectSeq(listeners,
                         LAMBDA r : r.name # registry[id].name)
       /\ unlistenCalled' = unlistenCalled \cup {id}
       /\ evEvent' = EvEvent("unlisten", registry[id].name, "", id, <<>>)
  /\ UNCHANGED <<registry, resolved, explorerVars, apiVars, storeVars,
                 serverVars>>

\* lines 35-37: the function returned by a listen call is called
unlisten ==
  /\ \E id \in 1..Len(registry) :
       /\ registry[id].kind = "listen"
       /\ listeners' = removeEventListener(listeners, id)
       /\ unlistenCalled' = unlistenCalled \cup {id}
       /\ evEvent' = EvEvent("unlisten", registry[id].name, "", id, <<>>)
  /\ UNCHANGED <<registry, resolved, explorerVars, apiVars, storeVars,
                 serverVars>>

\* lines 56-66: the executor of the promise runs inside the call
once ==
  /\ Len(registry) < MaxRegs
  /\ \E name \in EventNames :
       LET r == Registration(Len(registry) + 1, name, "once", "resolve")
       IN  /\ listeners' = Append(listeners, r)
           /\ registry' = Append(registry, r)
           /\ resolved' = Append(resolved, "pending")
           /\ evEvent' = EvEvent("once", name, "", r.id, <<>>)
  /\ UNCHANGED <<unlistenCalled, explorerVars, apiVars, storeVars, serverVars>>

\* dispatchEvent: the listeners of the event type, in the order they were added
Dispatched(list, name) == SelectSeq(list, LAMBDA r : r.name = name)

\* Promise resolve: only the first call settles the promise
Resolve(value, payload) == IF value = "pending" THEN payload ELSE value

\* mutant of emit: the listeners of once() stay registered
emit_onceStays ==
  /\ \E name \in EventNames, payload \in Payloads :
       LET run == Dispatched(listeners, name)
       IN  /\ listeners' = listeners
           /\ resolved' =
                [id \in 1..Len(resolved) |->
                   IF \E i \in 1..Len(run) :
                        run[i].id = id /\ run[i].kind = "once"
                     THEN Resolve(resolved[id], payload)
                     ELSE resolved[id]]
           /\ evEvent' = EvEvent("emit", name, payload, 0,
                           [i \in 1..Len(run) |->
                              [reg |-> run[i].id, handler |-> run[i].handler,
                               payload |-> payload]])
  /\ UNCHANGED <<registry, unlistenCalled, explorerVars, apiVars, storeVars,
                 serverVars>>

\* lines 45-48, with the handlers of lines 27-30 and 58-62
emit ==
  /\ \E name \in EventNames, payload \in Payloads :
       LET run == Dispatched(listeners, name)
       IN  /\ listeners' =
                SelectSeq(listeners,
                          LAMBDA r : ~(r.name = name /\ r.kind = "once"))
           /\ resolved' =
                [id \in 1..Len(resolved) |->
                   IF \E i \in 1..Len(run) :
                        run[i].id = id /\ run[i].kind = "once"
                     THEN Resolve(resolved[id], payload)
                     ELSE resolved[id]]
           /\ evEvent' = EvEvent("emit", name, payload, 0,
                           [i \in 1..Len(run) |->
                              [reg |-> run[i].id, handler |-> run[i].handler,
                               payload |-> payload]])
  /\ UNCHANGED <<registry, unlistenCalled, explorerVars, apiVars, storeVars,
                 serverVars>>

EventNext ==
  \/ listen
  \/ unlisten
  \/ once
  \/ emit

EventSpec == Init /\ [][EventNext]_vars

(***************************************************************************)
(* The server's file endpoints (server.js, README.docker.md)               *)
(***************************************************************************)
\* const WORKSPACE_DIR = process.env.DEFAULT_WORKSPACE || '/workspace',
\* as the segments of the path
WORKSPACE_DIR == <<"workspace">>

\* the characters of path segments
SegChars ==
  [g \in {"workspace", "workspace2", "p1", "p2", "etc", "sub", "x",
          "a.txt", ".."} |->
     CASE g = "workspace"  -> <<"w", "o", "r", "k", "s", "p", "a", "c", "e">>
       [] g = "workspace2" -> <<"w", "o", "r", "k", "s", "p", "a", "c", "e",
                                "2">>
       [] g = "p1"         -> <<"p", "1">>
       [] g = "p2"         -> <<"p", "2">>
       [] g = "etc"        -> <<"e", "t", "c">>
       [] g = "sub"        -> <<"s", "u", "b">>
       [] g = "x"          -> <<"x">>
       [] g = "a.txt"      -> <<"a", ".", "t", "x", "t">>
       [] g = ".."         -> <<".", ".">>]

\* the path value of a request: missing or empty, or the segments between
\* its '/' characters and whether it starts with '/'
NoPath == [given |-> FALSE, abs |-> FALSE, segs |-> <<>>]

RelPath(segs) == [given |-> TRUE, abs |-> FALSE, segs |-> segs]

AbsPath(segs) == [given |-> TRUE, abs |-> TRUE, segs |-> segs]

RequestPaths ==
  { NoPath,
    RelPath(<<"a.txt">>),
    RelPath(<<"p1", "sub", "..", "a.txt">>),
    RelPath(<<"..", "p2", "a.txt">>),
    RelPath(<<"..", "workspace2", "x">>),
    RelPath(<<"..", "..", "etc", "x">>),
    AbsPath(<<"workspace", "p1", "a.txt">>),
    AbsPath(<<"etc", "x">>) }

\* req.params.projectId
RouteProjectIds == {"p1"}

\* path normalization: '.' and empty segments go, '..' drops the segment
\* before it and stays at the root
RECURSIVE Normalize(_, _)
Normalize(done, segs) ==
  IF segs = <<>> THEN done
  ELSE IF Head(segs) = ".."
    THEN Normalize(IF done = <<>> THEN <<>>
                   ELSE SubSeq(done, 1, Len(done) - 1), Tail(segs))
  ELSE IF Head(segs) \in {".", ""}
    THEN Normalize(done, Tail(segs))
  ELSE Normalize(Append(done, Head(segs)), Tail(segs))

\* path.resolve(base, p): an absolute p replaces the base
resolve(base, p) ==
  IF p.abs THEN Normalize(<<>>, p.segs) ELSE Normalize(base, p.segs)

\* path.join(base, p): p is appended, also when it starts with '/'
join(base, p) == Normalize(base, p.segs)

\* path.dirname
dirname(segs) ==
  IF segs = <<>> THEN <<>> ELSE SubSeq(segs, 1, Len(segs) - 1)

\* the string of an absolute path
RECURSIVE PathChars(_)
PathChars(segs) ==
  IF segs = <<>> THEN <<>>
  ELSE <<"/">> \o SegChars[Head(segs)] \o PathChars(Tail(segs))

PathString(segs) == IF segs = <<>> THEN <<"/">> ELSE PathChars(segs)

\* String.prototype.startsWith
startsWith(cs, prefix) ==
  Len(prefix) <= Len(cs) /\ SubSeq(cs, 1, Len(prefix)) = prefix

\* README.docker.md:513, 535, 557: targetPath.startsWith(WORKSPACE_DIR)
WithinWorkspace(target) ==
  startsWith(PathString(target), PathString(WORKSPACE_DIR))

FsOp(op, target) == [op |-> op, path |-> target]

Reply(endpoint, projectId, request, status, touched) ==
  [endpoint |-> endpoint, projectId |-> projectId, request |-> request,
   status |-> status, touched |-> touched]

\* listDirectory never throws (server.js:39-53): the answer is 200
ListAnswer(endpoint, projectId, request, target) ==
  /\ reply' = Reply(endpoint, projectId, request, 200,
                    {FsOp("readdir", target)})
  /\ UNCHANGED fsWritten

\* fs.readFile, answered with the content or, when it fails, with 500
ReadAnswer(endpoint, projectId, request, target) ==
  /\ \E status \in {200, 500} :
       reply' = Reply(endpoint, projectId, request, status,
                      {FsOp("readFile", target)})
  /\ UNCHANGED fsWritten

\* fs.mkdir of the directory, then fs.writeFile; either may fail with 500
WriteAnswer(endpoint, projectId, request, target) ==
  \/ /\ reply' = Reply(endpoint, projectId, request, 500,
                       {FsOp("mkdir", dirname(target))})
     /\ UNCHANGED fsWritten
  \/ /\ reply' = Reply(endpoint, projectId, request, 500,
                       {FsOp("mkdir", dirname(target)),
                        FsOp("writeFile", target)})
     /\ UNCHANGED fsWritten
  \/ /\ reply' = Reply(endpoint, projectId, request, 200,
                       {FsOp("mkdir", dirname(target)),
                        FsOp("writeFile", target)})
     /\ fsWritten' = fsWritten \cup {target}

Refused(endpoint, projectId, request, status) ==
  /\ reply' = Reply(endpoint, projectId, request, status, {})
  /\ UNCHANGED fsWritten

\* README.docker.md:507-523
GetFiles ==
  /\ UNCHANGED <<explorerVars, apiVars, storeVars, eventVars>>
  /\ \E request \in RequestPaths :
       LET targetPath == IF request.given
                           THEN resolve(WORKSPACE_DIR, request)
                           ELSE WORKSPACE_DIR
       IN  IF ~WithinWorkspace(targetPath)
             THEN Refused("GET /api/files", "", request, 403)
             ELSE ListAnswer("GET /api/files", "", request, targetPath)

\* README.docker.md:525-545
PostFilesRead ==
  /\ UNCHANGED <<explorerVars, apiVars, storeVars, eventVars>>
  /\ \E request \in RequestPaths :
       IF ~request.given
         THEN Refused("POST /api/files/read", "", request, 400)
       ELSE IF ~WithinWorkspace(resolve(WORKSPACE_DIR, request))
         THEN Refused("POST /api/files/read", "", request, 403)
       ELSE ReadAnswer("POST /api/files/read", "", request,
                       resolve(WORKSPACE_DIR, request))

\* README.docker.md:547-569
PostFilesWrite ==
  /\ UNCHANGED <<explorerVars, apiVars, storeVars, eventVars>>
  /\ \E request \in RequestPaths :
       IF ~request.given
         THEN Refused("POST /api/files/write", "", request, 400)
       ELSE IF ~WithinWorkspace(resolve(WORKSPACE_DIR, request))
         THEN Refused("POST /api/files/write", "", request, 403)
       ELSE WriteAnswer("POST /api/files/write", "", request,
                        resolve(WORKSPACE_DIR, request))

\* server.js:112-126
GetProjectFiles ==
  /\ UNCHANGED <<explorerVars, apiVars, storeVars, eventVars>>
  /\ \E projectId \in RouteProjectIds, request \in RequestPaths :
       LET projectPath == Append(WORKSPACE_DIR, projectId)
           targetPath  == IF request.given THEN join(projectPath, request)
                                           ELSE projectPath
       IN  ListAnswer("GET /api/workspace/projects/:projectId/files",
                      projectId, request, targetPath)

\* server.js:129-143; path.join throws on a missing path, answered with 500
PostProjectFileContent ==
  /\ UNCHANGED <<explorerVars, apiVars, storeVars, eventVars>>
  /\ \E projectId \in RouteProjectIds, request \in RequestPaths :
       LET projectPath == Append(WORKSPACE_DIR, projectId)
           endpoint ==
             "POST /api/workspace/projects/:projectId/files/content"
       IN  IF ~request.given
             THEN Refused(endpoint, projectId, request, 500)
             ELSE ReadAnswer(endpoint, projectId, request,
                             join(projectPath, request))

\* server.js:146-164
PutProjectFileContent ==
  /\ UNCHANGED <<explorerVars, apiVars, storeVars, eventVars>>
  /\ \E projectId \in RouteProjectIds, request \in RequestPaths :
       LET projectPath == Append(WORKSPACE_DIR, projectId)
           endpoint ==
             "PUT /api/workspace/projects/:projectId/files/content"
       IN  IF ~request.given
             THEN Refused(endpoint, projectId, request, 500)
             ELSE WriteAnswer(endpoint, projectId, request,
                              join(projectPath, request))

ServerNext ==
  \/ GetFiles
  \/ PostFilesRead
  \/ PostFilesWrite
  \/ GetProjectFiles
  \/ PostProjectFileContent
  \/ PutProjectFileContent

ServerSpec == Init /\ [][ServerNext]_vars

(***************************************************************************)
(* Vocabulary of the properties                                            *)
(***************************************************************************)
\* every node of a tree, at any depth reachable through children lists
RECURSIVE Nodes(_)
Nodes(tree) ==
  UNION { {tree[i]} \cup (IF tree[i].has_children
                            THEN Nodes(tree[i].children) ELSE {})
          : i \in 1..Len(tree) }

\* the positions of the nodes of a tree: index paths from the roots
RECURSIVE Positions(_)
Positions(tree) ==
  UNION { {<<i>>} \cup
          { <<i>> \o q : q \in (IF tree[i].has_children
                                  THEN Positions(tree[i].children) ELSE {}) }
          : i \in 1..Len(tree) }

RECURSIVE NodeAt(_, _)
NodeAt(tree, pos) ==
  IF Len(pos) = 1 THEN tree[pos[1]]
  ELSE NodeAt(tree[pos[1]].children, Tail(pos))

\* the node at pos is a directory with the given path
IsTarget(tree, pos, t) ==
  NodeAt(tree, pos).path = t /\ NodeAt(tree, pos).is_directory

\* a proper ancestor of pos is a directory with the given path
UnderTarget(tree, pos, t) ==
  \E k \in 1..(Len(pos) - 1) : IsTarget(tree, SubSeq(pos, 1, k), t)

\* a completed fetch has populated the node: only a graft sets expanded
Populated(n) == n.is_directory /\ n.has_children /\ n.expanded

\* the toggles whose fetch for path p has not completed
OutstandingFor(p) ==
  LET cs == { c \in BagToSet(calls) : c.kind = "expand" /\ c.path = p }
  IN BagCardinality([c \in cs |-> calls[c]])

\* the last step was a click that expands the directory of path p
ExpandClick(ev) == ev.op \in {"expandFetch", "expandCached"}

\* the last step completed an expansion whose container listing failed
FailedExpand(ev) == ev.op = "expandDone" /\ ev.outcome # "ok"

\* graft targets and children lists the pure properties range over
TargetPaths ==
  { n.path : n \in Nodes(fileTree) } \cup {"src", "docs/lib", "gone"}

ChildLists ==
  { <<>>, getMockFiles, << File("index.ts", "src/index.ts", FALSE) >>,
    << File("lib", "docs/lib", TRUE), File("a.ts", "docs/a.ts", FALSE) >> }

(***************************************************************************)
(* Properties                                                              *)
(***************************************************************************)
\* C1: while a child-listing fetch for a directory path is outstanding no
\* second one is started for the same path: at most one expansion fetch
\* per path is outstanding at any time.
C1_OneFetchPerPath ==
  \A c \in BagToSet(calls) : c.kind = "expand" => OutstandingFor(c.path) <= 1

\* C2: when the fetch of an expanding toggle has failed, the path is not in
\* the expanded-path set once the toggle has completed.
C2_FailedExpandIsCollapsed ==
  FailedExpand(lastEvent) => lastEvent.path \notin expandedPaths

\* C3: a failed child fetch performs no graft: the completion of an
\* expansion whose fetch failed leaves the file tree as it was.
C3_FailedExpandNoGraft ==
  [][FailedExpand(lastEvent') => fileTree' = fileTree]_vars

\* C4: a collapse only removes the path from the expanded-path set, and
\* expanding a directory whose cached children list is non-empty issues no
\* listing call and leaves the tree (so the cached children) as it was.
C4_CachedReexpand ==
  [][LET p == lastEvent'.path IN
       /\ lastEvent'.op = "collapse" =>
            /\ expandedPaths' = expandedPaths \ {p}
            /\ fileTree' = fileTree /\ calls' = calls /\ requests' = requests
       /\ ( /\ ExpandClick(lastEvent')
            /\ \A e \in Clickable :
                 (e.is_directory /\ e.path = p) => Len(e.children) > 0 ) =>
            /\ expandedPaths' = expandedPaths \cup {p}
            /\ fileTree' = fileTree /\ calls' = calls /\ requests' = requests
    ]_vars

\* C4 witness: src was listed once, collapsed, and is expanded again from
\* its cached children
C4_Witness ==
  /\ lastEvent.op = "expandCached" /\ lastEvent.path = "src"
  /\ requests = 2
  /\ \E n \in Nodes(fileTree) : n.path = "src" /\ Len(n.children) > 0

\* C5: expanding a directory whose children a completed fetch has already
\* populated (with whatever listing, an empty one too) issues no listing
\* call.
C5_PopulatedNotRefetched ==
  [][( /\ ExpandClick(lastEvent')
       /\ \A e \in Clickable :
            (e.is_directory /\ e.path = lastEvent'.path) => Populated(e) ) =>
       requests' = requests]_vars

\* C6: a graft whose target path matches no directory node of the tree
\* returns the tree it was given.
C6_StaleGraftIsNoOp ==
  \A t \in TargetPaths : \A c \in ChildLists :
    (~\E n \in Nodes(fileTree) : n.path = t /\ n.is_directory) =>
      updateTreeWithChildren(fileTree, t, c) = fileTree

\* C6 witness: an expansion has completed for a path that names no
\* directory of a non-empty tree holding files and nested nodes
C6_Witness ==
  /\ lastEvent.op = "expandDone"
  /\ ~\E n \in Nodes(fileTree) : n.path = lastEvent.path /\ n.is_directory
  /\ \E n \in Nodes(fileTree) : ~n.is_directory
  /\ \E pos \in Positions(fileTree) : Len(pos) > 1

\* the graft of children c at target t into tree T is right: the target
\* directories get exactly c, lazily, and all nodes outside them are kept
GraftCorrect(T, t, c) ==
  LET R == updateTreeWithChildren(T, t, c) IN
    /\ Len(R) = Len(T)
    /\ \A pos \in Positions(R) :
         pos \in Positions(T) \/ UnderTarget(T, pos, t)
    /\ \A pos \in Positions(T) :
         UnderTarget(T, pos, t) \/
           /\ pos \in Positions(R)
           /\ LET old == NodeAt(T, pos)
                  new == NodeAt(R, pos)
              IN /\ new.name = old.name
                 /\ new.path = old.path
                 /\ new.is_directory = old.is_directory
                 /\ IF IsTarget(T, pos, t)
                      THEN /\ new.has_children
                           /\ Len(new.children) = Len(c)
                           /\ \A j \in 1..Len(c) :
                                /\ new.children[j].name = c[j].name
                                /\ new.children[j].path = c[j].path
                                /\ new.children[j].is_directory
                                     = c[j].is_directory
                                /\ new.children[j].children = <<>>
                                /\ ~new.children[j].expanded
                      ELSE /\ new.has_children = old.has_children
                           /\ new.expanded = old.expanded
                           /\ Len(new.children) = Len(old.children)

\* C7: a graft at the path of a directory node, at any depth, replaces that
\* node's children by exactly the given sequence, each child without
\* children of its own, and keeps every other node and the sibling order;
\* with roots [src, README.md], a toggle of src whose fetch returns
\* [src/index.ts] gives tree[0].children[0].path = src/index.ts and src in
\* the expanded-path set.
C7_GraftReplacesChildren ==
  /\ \A t \in TargetPaths : \A c \in ChildLists : GraftCorrect(fileTree, t, c)
  /\ ( /\ lastEvent.op = "expandDone" /\ lastEvent.path = "src"
       /\ lastEvent.outcome = "ok"
       /\ Len(fileTree) = 2
       /\ fileTree[1].path = "src" /\ fileTree[1].is_directory
       /\ fileTree[2].path = "README.md" ) =>
       /\ fileTree[1].children[1].path = "src/index.ts"
       /\ "src" \in expandedPaths

\* C7 witness: the toggle of src has completed on roots [src, README.md]
C7_Witness ==
  /\ lastEvent.op = "expandDone" /\ lastEvent.path = "src"
  /\ lastEvent.outcome = "ok"
  /\ Len(fileTree) = 2
  /\ fileTree[1].path = "src" /\ fileTree[2].path = "README.md"
  /\ Len(fileTree[1].children) = 1

\* C8 as stated: a node has a children list exactly if it is a directory
\* whose child fetch has completed at least once.
C8_ChildrenIffFetched ==
  \A n \in Nodes(fileTree) : n.has_children <=> Populated(n)

\* C8 amended: a node has a children list exactly if it is a directory;
\* files have none, and a never-expanded directory has the empty list.
C8_ChildrenIffDirectory ==
  \A n \in Nodes(fileTree) :
    /\ n.has_children <=> n.is_directory
    /\ ~n.has_children => n.children = <<>>
    /\ (n.is_directory /\ ~n.expanded) => n.children = <<>>

\* C8 witness: a tree with a file, a populated and a never-expanded directory
C8_Witness ==
  /\ \E n \in Nodes(fileTree) : ~n.is_directory
  /\ \E n \in Nodes(fileTree) : Populated(n) /\ Len(n.children) > 0
  /\ \E n \in Nodes(fileTree) : n.is_directory /\ ~n.expanded

\* C9: when no fetch is outstanding, every path of the expanded-path set
\* names a directory node of the tree whose children a completed fetch has
\* populated.
C9_ExpandedIsPopulated ==
  calls = EmptyBag =>
    \A p \in expandedPaths :
      \E n \in Nodes(fileTree) : n.path = p /\ Populated(n)

\* C10: no two nodes of the file tree have the same path.
C10_UniquePaths ==
  \A p, q \in Positions(fileTree) :
    NodeAt(fileTree, p).path = NodeAt(fileTree, q).path => p = q

(***************************************************************************)
(* Vocabulary of the search properties                                     *)
(***************************************************************************)
\* position p comes before position q in depth-first pre-order
Before(p, q) ==
  \/ Len(p) < Len(q) /\ SubSeq(q, 1, Len(p)) = p
  \/ \E i \in 1..Len(p) :
       /\ i <= Len(q)
       /\ p[i] < q[i]
       /\ SubSeq(p, 1, i - 1) = SubSeq(q, 1, i - 1)

\* the node has the fields of the entry apart from the display path
SameNode(m, n) ==
  /\ m.name = n.name /\ m.is_directory = n.is_directory
  /\ m.has_children = n.has_children /\ m.children = n.children
  /\ m.expanded = n.expanded

\* the name contains the query, both taken in lower case
NameHasQuery(name, q) ==
  LET nm == toLowerCase(Chars[name])
      qq == toLowerCase(Chars[q])
  IN \E i \in 0..Len(nm) :
       i + Len(qq) <= Len(nm) /\ SubSeq(nm, i + 1, i + Len(qq)) = qq

\* r lists exactly the nodes of tree T at the positions P, in pre-order
ListsPositions(r, T, P) ==
  /\ Len(r) = Cardinality(P)
  /\ \A p \in P :
       SameNode(r[Cardinality({q \in P : Before(q, p)}) + 1], NodeAt(T, p))

\* r lists exactly the nodes of T whose name contains q
ListsMatches(r, T, q) ==
  ListsPositions(r, T, { p \in Positions(T) :
                           NameHasQuery(NodeAt(T, p).name, q) })

LegacyCount(b) ==
  LET cs == { c \in BagToSet(b) : c.stage = "legacy" }
  IN BagCardinality([c \in cs |-> b[c]])

(***************************************************************************)
(* Properties of search, selection and root load                           *)
(***************************************************************************)
\* C11: flattening with a query every name contains yields every node of
\* the materialized tree exactly once, in depth-first pre-order (parent
\* before children, siblings in listing order), so as many entries as nodes.
C11_FlattenAllPreOrder ==
  ListsPositions(filterFiles(fileTree, <<>>), fileTree, Positions(fileTree))

\* C11 witness: a tree of at least five nodes, some of them nested
C11_Witness ==
  /\ Len(filterFiles(fileTree, <<>>)) >= 5
  /\ \E p \in Positions(fileTree) : Len(p) >= 2

\* C12 as stated: setting any non-empty query makes the result list exactly
\* the nodes whose name contains the query, case-insensitively, issues no
\* listing call and leaves tree and expanded-path set unchanged.
C12_NonEmptyQueryListsMatches ==
  [][lastEvent'.op = "search" =>
       /\ searchQuery' # "" =>
            ListsMatches(filteredFiles', fileTree', searchQuery')
       /\ fileTree' = fileTree /\ expandedPaths' = expandedPaths
       /\ calls' = calls /\ requests' = requests]_vars

\* C12 amended: setting a query that has a character other than white
\* space makes the result list exactly the nodes whose name contains the
\* query, case-insensitively; a query that is empty or all white space
\* gives the empty list; setting a query issues no listing call and leaves
\* tree and expanded-path set unchanged.
C12_NonBlankQueryListsMatches ==
  [][lastEvent'.op = "search" =>
       /\ IF trimNonEmpty(searchQuery')
            THEN ListsMatches(filteredFiles', fileTree', searchQuery')
            ELSE filteredFiles' = <<>>
       /\ fileTree' = fileTree /\ expandedPaths' = expandedPaths
       /\ calls' = calls /\ requests' = requests]_vars

\* C12 witness: the query Me has just been set and lists README.md
C12_Witness ==
  /\ lastEvent.op = "search" /\ searchQuery = "Me"
  /\ \E i \in 1..Len(filteredFiles) : filteredFiles[i].name = "README.md"

C15_SelectFileOrToggle ==
  [][LET ev == lastEvent'
         p  == lastEvent'.path
     IN /\ ev.op = "select" =>
             /\ \E e \in Clickable : ~e.is_directory /\ e.path = p
             /\ ev.selected = <<p>>
             /\ fileTree' = fileTree /\ expandedPaths' = expandedPaths
             /\ calls' = calls /\ requests' = requests
        /\ ev.op # "select" => ev.selected = <<>>
        /\ ev.op \in {"collapse", "expandFetch", "expandCached"} =>
             /\ \E e \in Clickable : e.is_directory /\ e.path = p
             /\ IF p \in expandedPaths
                  THEN expandedPaths' = expandedPaths \ {p}
                  ELSE \/ expandedPaths' = expandedPaths \cup {p}
                       \/ /\ expandedPaths' = expandedPaths
                          /\ calls' = calls (+) SetToBag({
                               Call("expand", p, "container",
                                    expandedPaths \cup {p})}) ]_vars

\* C15 witness: a file was selected from the search results
C15_Witness ==
  /\ lastEvent.op = "select" /\ lastEvent.selected = <<lastEvent.path>>
  /\ viewMode = "search"

\* C16: a root load first asks the container client; the legacy listing is
\* asked only by a call whose container request has failed, once; when
\* either source answers, the roots are exactly its entries, in order, and
\* nothing of the previous tree is kept.
C16_RootLoadOrder ==
  [][/\ lastEvent'.op = "loadRoot" =>
          calls' = calls (+) SetToBag({Call("root", "", "container", {})})
     /\ LegacyCount(calls') > LegacyCount(calls) =>
          /\ lastEvent'.op = "fallback"
          /\ \E c \in BagToSet(calls) :
               /\ c.stage = "container"
               /\ calls' = (calls (-) SetToBag({c}))
                             (+) SetToBag({[c EXCEPT !.stage = "legacy"]})
     /\ LegacyCount(calls') < LegacyCount(calls) =>
          /\ LegacyCount(calls') = LegacyCount(calls) - 1
          /\ BagCardinality(calls') = BagCardinality(calls) - 1
     /\ (lastEvent'.op = "rootDone"
         /\ lastEvent'.outcome \in {"ok", "legacyOk"}) =>
          \E fs \in Listings("") :
            /\ Len(fileTree') = Len(fs)
            /\ \A i \in 1..Len(fs) :
                 /\ fileTree'[i].name = fs[i].name
                 /\ fileTree'[i].path = fs[i].path
                 /\ fileTree'[i].is_directory = fs[i].is_directory
                 /\ fileTree'[i].children = <<>>
                 /\ ~fileTree'[i].expanded ]_vars

\* C16 witness: a root load answered by the legacy listing has replaced a
\* tree in which src was expanded
C16_Witness ==
  /\ lastEvent.op = "rootDone" /\ lastEvent.outcome = "legacyOk"
  /\ "src" \in expandedPaths
  /\ Len(fileTree) >= 2

\* C17: when both the container listing and the legacy listing of a root
\* load have failed, the tree is empty once the load has completed.
C17_BothFailedEmptyTree ==
  (lastEvent.op = "rootDone" /\ lastEvent.outcome = "legacyFailed") =>
    fileTree = <<>>

\* C19: when expansions of two different directories are in flight at the
\* same time, the tree after both grafts holds both of them and is the
\* same whichever fetch completes first.
C19_RacingGraftsCommute ==
  \A cA, cB \in BagToSet(calls) :
    ( /\ cA.kind = "expand" /\ cB.kind = "expand"
      /\ cA.stage = "container" /\ cB.stage = "container"
      /\ cA.path # cB.path ) =>
      \A fa \in Listings(cA.path) : \A fb \in Listings(cB.path) :
        LET ea == LazyEntries(fa)
            eb == LazyEntries(fb)
            ab == updateTreeWithChildren(
                    updateTreeWithChildren(fileTree, cA.path, ea),
                    cB.path, eb)
            ba == updateTreeWithChildren(
                    updateTreeWithChildren(fileTree, cB.path, eb),
                    cA.path, ea)
        IN /\ ab = ba
           /\ \A c \in {cA, cB} :
                (\E n \in Nodes(fileTree) : n.path = c.path /\ n.is_directory)
                  => \E n \in Nodes(ab) : n.path = c.path /\ Populated(n)

\* C18: every ContainerAPI method whose fetch is rejected or answered with
\* a non-2xx status returns without raising; the methods with a result
\* return their mock data, writeFile and deleteFile return nothing, and the
\* Persistent Project Store is left as it was
C18_FailureGivesMock ==
  [][ (apiPending.op # "none" /\ apiPending'.op = "none"
       /\ apiResult'.response \in {"non2xx", "transport"})
      => /\ apiResult'.op = apiPending.op
         /\ ~apiResult'.raised
         /\ apiResult'.source = "mock"
         /\ apiResult'.value =
              IF apiPending.op \in {"writeFile", "deleteFile"}
                THEN "undefined"
                ELSE MockValue(apiPending.op, apiPending.arg)
         /\ UNCHANGED storeVars ]_vars

C18_Witness ==
  /\ apiResult.op = "createProject"
  /\ apiResult.response = "transport"
  /\ apiResult.value.id = "to-do"
  /\ apiResult.value.path = "/workspace/to-do"

\* C20: the write of an updateProjectFile call stores the record the call
\* read with one change: the first file record with the path has the new
\* content and the size of the new content, at the same position and with
\* the same type, or, if no record has the path, one text record is added
\* at the end; the other file records and id, name and created_at are the
\* ones read, and a second update of the path would not change the count
C20_UpdateReplacesOrAppends ==
  [][ \A o \in BagToSet(storeOps) :
        (storeOps' = storeOps (-) SetToBag({o}) /\ storeEvent'.outcome = "ok"
         /\ storeEvent'.id = o.id /\ storeEvent'.path = o.path)
        => LET old  == o.read
               new  == db'[o.id]
               hits == {i \in 1..Len(old.files) : old.files[i].path = o.path}
               rec(type) == [path |-> o.path,
                             content |-> [kind |-> "string",
                                          data |-> o.content],
                             type |-> type,
                             size |-> Utf8Length(StoreChars[o.content])]
           IN  /\ new.id = old.id
               /\ new.name = old.name
               /\ new.created_at = old.created_at
               /\ IF hits # {}
                    THEN /\ Len(new.files) = Len(old.files)
                         /\ \E i \in hits :
                              /\ new.files[i] = rec(old.files[i].type)
                              /\ \A j \in 1..Len(old.files) :
                                   j # i => new.files[j] = old.files[j]
                    ELSE new.files = Append(old.files, rec("text"))
               /\ \A c \in Contents :
                    Len(UpdatedProject(new, o.path, c).files) = Len(new.files)
    ]_vars

C20_Witness ==
  /\ storeEvent.op = "updateProjectFile"
  /\ storeEvent.outcome = "ok"
  /\ storeEvent.path = "d/b.BIN"
  /\ storeEvent.id \in DOMAIN db
  /\ Len(db[storeEvent.id].files) = 2
  /\ db[storeEvent.id].files[2] =
       [path |-> "d/b.BIN", content |-> [kind |-> "string", data |-> "hi"],
        type |-> "binary", size |-> 2]

\* C21: in every reachable state of the object store no project holds two
\* file records with the same path
C21_UniqueFilePaths ==
  \A id \in DOMAIN db :
    \A i, j \in 1..Len(db[id].files) :
      db[id].files[i].path = db[id].files[j].path => i = j

\* the step is a call of the named method, as the method's result shows
StoreCall(op) == storeEvent'.op = op /\ storeOps' = storeOps

\* the file path has no record in the stored project
PathMissing(id, filePath) ==
  \A i \in 1..Len(db[id].files) : db[id].files[i].path # filePath

\* what C22 says of a call that meets a missing project or path
MissingIsNull ==
  /\ (StoreCall("getProject") /\ storeEvent'.id \notin DOMAIN db)
     => (storeEvent'.outcome = "ok" /\ storeEvent'.result = "null")
  /\ (/\ StoreCall("getProjectFile")
      /\ \/ storeEvent'.id \notin DOMAIN db
         \/ PathMissing(storeEvent'.id, storeEvent'.path))
     => (storeEvent'.outcome = "ok" /\ storeEvent'.result = "null")
  /\ (StoreCall("updateProjectFile") /\ storeEvent'.id \notin DOMAIN db)
     => (storeEvent'.outcome = "Project not found" /\ db' = db)

\* C22, as claimed: getProject of an unknown or deleted id and getProjectFile
\* of an unknown project or path return null, updateProjectFile of an
\* unknown id fails with 'Project not found' and leaves the store unchanged
C22_MissingIsNull == [][MissingIsNull]_vars

\* C22, amended: the same once init() has opened the database; before that
\* each of the three calls fails with 'Database not initialized' and
\* leaves the store unchanged
C22_MissingIsNullWhenOpen ==
  [][ /\ dbOpen => MissingIsNull
      /\ (/\ ~dbOpen
          /\ \/ StoreCall("getProject")
             \/ StoreCall("getProjectFile")
             \/ StoreCall("updateProjectFile"))
         => (storeEvent'.outcome = "Database not initialized" /\ db' = db)
    ]_vars

C22_Witness ==
  /\ dbOpen
  /\ writes >= 2
  /\ storeEvent.op = "getProject"
  /\ storeEvent.id \notin DOMAIN db
  /\ storeEvent.outcome = "ok"
  /\ storeEvent.result = "null"

\* the paths of the file records of a project
PathsOf(project) == {project.files[i].path : i \in 1..Len(project.files)}

\* the suspended call o read its project before another update of the same
\* project was written: the stored record has a file the call's record lacks
ReadBeforeOtherWrite(o) ==
  /\ o.id \in DOMAIN db
  /\ PathsOf(db[o.id]) \ PathsOf(o.project) # {}

\* C24: the write of an updateProjectFile call is a transaction of its own
\* that stores the whole record built from what the call read; when another
\* update of the project was written in between, the stored file list
\* afterwards holds this call's update and not the other one
C24_LostUpdate ==
  [][ \A o \in BagToSet(storeOps) :
        (storeOps' = storeOps (-) SetToBag({o}) /\ storeEvent'.id = o.id
         /\ storeEvent'.path = o.path /\ ReadBeforeOtherWrite(o))
        => /\ o.path \in PathsOf(db'[o.id])
           /\ PathsOf(db[o.id]) \ PathsOf(db'[o.id]) # {}
           /\ PathsOf(db'[o.id]) = PathsOf(o.read) \cup {o.path}
    ]_vars

\* both calls have read the record, one has written, the other is about to
C24_Witness ==
  \E o \in BagToSet(storeOps) :
    /\ ReadBeforeOtherWrite(o)
    /\ o.path \notin PathsOf(db[o.id])
    /\ o.read.files = <<>>
    /\ PathsOf(db[o.id]) = {"notes"}

(***************************************************************************)
(* Display paths of search results                                         *)
(***************************************************************************)
\* the names of the ancestors of the node at pos and its own name, joined
\* with '/'
RECURSIVE NamePath(_, _)
NamePath(tree, pos) ==
  IF Len(pos) = 1 THEN tree[pos[1]].name
  ELSE tree[pos[1]].name \o "/" \o NamePath(tree[pos[1]].children, Tail(pos))

\* the path starts with '/': it is '/' followed by a relative path of the tree
IsAbsolute(tree, path) ==
  \E q \in {NamePath(tree, p) : p \in Positions(tree)}
             \cup {n.path : n \in Nodes(tree)} :
    path = "/" \o q

\* C25: a search match reports the node's own path when the node is a root
\* entry or its path is absolute, and otherwise the names of all its
\* ancestors and its own name joined with '/'
C25_DisplayPathJoinsAncestors ==
  LET r == filterFiles(fileTree, <<>>)
      P == Positions(fileTree)
  IN  \A p \in P :
        r[Cardinality({q \in P : Before(q, p)}) + 1].path =
          IF Len(p) = 1 \/ IsAbsolute(fileTree, NodeAt(fileTree, p).path)
            THEN NodeAt(fileTree, p).path
            ELSE NamePath(fileTree, p)

(***************************************************************************)
(* Properties of the event system                                          *)
(***************************************************************************)
\* the registrations made by listen calls whose unlisten function has not
\* been called
LiveListens(name) ==
  { id \in 1..Len(registry) :
      /\ registry[id].kind = "listen" /\ registry[id].name = name
      /\ id \notin unlistenCalled }

\* the handler invocations of the step, restricted to handlers of listen
ListenInvocations(ev) ==
  SelectSeq(ev.invoked, LAMBDA v : registry[v.reg].kind = "listen")

\* C26: an emit invokes, once each and with its payload, exactly the handlers
\* of the listen registrations of that name whose unlisten function has not
\* been called; an unlisten call removes its own registration only, and
\* calling it again changes nothing
C26_EmitReachesLiveListeners ==
  [][ /\ evEvent'.op = "emit" =>
           LET inv == ListenInvocations(evEvent')
           IN  /\ \A id \in LiveListens(evEvent'.name) :
                    Cardinality({i \in 1..Len(inv) : inv[i].reg = id}) = 1
               /\ \A i \in 1..Len(inv) :
                    /\ inv[i].reg \in LiveListens(evEvent'.name)
                    /\ inv[i].handler = registry[inv[i].reg].handler
                    /\ inv[i].payload = evEvent'.payload
      /\ evEvent'.op = "unlisten" =>
           /\ \A i \in 1..Len(listeners') : listeners'[i].id # evEvent'.reg
           /\ \A i \in 1..Len(listeners) :
                listeners[i].id # evEvent'.reg =>
                  \E j \in 1..Len(listeners') : listeners'[j] = listeners[i]
           /\ evEvent'.reg \in unlistenCalled => listeners' = listeners
    ]_vars

\* two handlers listen to a, the first has been unlistened, an emit of a
\* has invoked the second only
C26_Witness ==
  /\ Len(registry) = 2
  /\ registry[1].name = "a" /\ registry[2].name = "a"
  /\ registry[1].kind = "listen" /\ registry[2].kind = "listen"
  /\ unlistenCalled = {1}
  /\ evEvent.op = "emit" /\ evEvent.name = "a"
  /\ evEvent.invoked =
       <<[reg |-> 2, handler |-> registry[2].handler, payload |-> evEvent.payload]>>

\* C27: the promise of a once call is pending from the call on, whatever
\* was emitted before; the first later emit of its name settles it with
\* that payload and removes its listener; a settled promise keeps its value
\* and has no listener
C27_OnceTakesFirstEmit ==
  [][ /\ evEvent'.op = "once" =>
           /\ resolved'[evEvent'.reg] = "pending"
           /\ \E i \in 1..Len(listeners') : listeners'[i].id = evEvent'.reg
      /\ \A id \in 1..Len(registry) :
           registry[id].kind = "once" =>
             /\ (evEvent'.op = "emit" /\ evEvent'.name = registry[id].name
                 /\ resolved[id] = "pending")
                => resolved'[id] = evEvent'.payload
             /\ (evEvent'.op = "emit" /\ evEvent'.name # registry[id].name)
                => resolved'[id] = resolved[id]
             /\ resolved[id] # "pending" => resolved'[id] = resolved[id]
             /\ resolved'[id] # "pending" =>
                  \A i \in 1..Len(listeners') : listeners'[i].id # id
    ]_vars

\* a once call made after an emit of x was settled by a later emit of y,
\* and a further emit of x has not changed it
C27_Witness ==
  /\ Len(registry) = 2
  /\ registry[1].kind = "listen" /\ registry[2].kind = "once"
  /\ registry[1].name = registry[2].name
  /\ resolved[2] = "y"
  /\ evEvent.op = "emit" /\ evEvent.name = registry[2].name
  /\ evEvent.payload = "x"
  /\ Len(evEvent.invoked) = 1

(***************************************************************************)
(* Properties of overlapping loads                                         *)
(***************************************************************************)
\* C28: a toggle that completes its expansion adds its own path to the
\* expanded-path set and keeps every other membership as it is at that
\* moment, so two overlapping expansions of A and B leave both expanded
C28_CompletedToggleKeepsOthers ==
  [][lastEvent'.op = "expandDone" =>
       expandedPaths' = expandedPaths \cup {lastEvent'.path}]_vars

\* C29: loading is true exactly while a listing fetch started by
\* loadFileTree is outstanding
C29_LoadingIffOutstanding ==
  loading <=> (calls # EmptyBag)

(***************************************************************************)
(* Properties of the server's file endpoints                               *)
(***************************************************************************)
\* the location is the directory or lies below it
InsideDir(target, dir) ==
  Len(dir) <= Len(target) /\ SubSeq(target, 1, Len(dir)) = dir

LegacyEndpoints ==
  {"GET /api/files", "POST /api/files/read", "POST /api/files/write"}

\* C23: a request to a legacy endpoint whose path resolves against the
\* workspace root to a location that is neither the root nor below it is
\* answered with 403 and lists, reads, creates and writes nothing
C23_OutsideRootRejected ==
  (/\ reply.endpoint \in LegacyEndpoints
   /\ reply.request.given
   /\ ~InsideDir(resolve(WORKSPACE_DIR, reply.request), WORKSPACE_DIR))
  => (reply.status = 403 /\ reply.touched = {})

\* C30: every path a project-scoped endpoint lists, reads, creates or
\* writes is the directory WORKSPACE_DIR/<projectId> or lies below it
C30_ProjectScopedStaysInProject ==
  reply.projectId # "" =>
    \A t \in reply.touched :
      InsideDir(t.path, Append(WORKSPACE_DIR, reply.projectId))
====
